---- MODULE Spec2Model ----
(***************************************************************************)
(* A model of src/builder.js: the APIBuilder constructor, declare and      *)
(* build.                                                                  *)
(*                                                                         *)
(* JavaScript objects are functions from property names to values; a       *)
(* property that is not set is not in the DOMAIN, so `options[key]` is     *)
(* undefined exactly when key \notin DOMAIN options.  Every property has   *)
(* one type in the model (string, boolean, mapping, ...), so the falsy     *)
(* values are "" for a string and FALSE for a boolean.  Strings the code   *)
(* matches against a regular expression are sequences of characters.       *)
(***************************************************************************)
EXTENDS Integers, Sequences, FiniteSets, TLC

\* ------------------------------------------------------------------ bounds
MaxBuilds  == 2     \* build calls
MaxLen     == 2     \* length of the strings handed to the constructor

\* --------------------------------------------------------- object helpers
Has(o, k) == k \in DOMAIN o

Set(o, k, v) == [x \in DOMAIN o \cup {k} |-> IF x = k THEN v ELSE o[x]]

Without(o, k) == [x \in DOMAIN o \ {k} |-> o[x]]

\* options[k] is truthy, for a string property
TruthyStr(o, k) == Has(o, k) /\ o[k] # ""

\* options[k] is truthy, for a string held as a sequence of characters
TruthySeq(o, k) == Has(o, k) /\ o[k] # <<>>

\* options[k] is truthy, for a boolean property
TruthyBool(o, k) == Has(o, k) /\ o[k] = TRUE

EmptyObject == [k \in {} |-> ""]

\* the fallback overrides
Defaults_Mutant(a, b) ==
  [k \in DOMAIN a \cup DOMAIN b |-> IF k \in DOMAIN b THEN b[k] ELSE a[k]]

\* _.defaults({}, a, b): the keys of a, then the keys of b that a lacks
Defaults(a, b) ==
  [k \in DOMAIN a \cup DOMAIN b |-> IF k \in DOMAIN a THEN a[k] ELSE b[k]]

\* ------------------------------------------------------ regular expressions
LowerCase == {"a", "v", "n", "p", "u", "t", "r", "o", "e", "s", "c", "l", "d", "y", "f", "m"}
UpperCase == {"B", "I", "E", "M", "P"}
Digit     == {"0", "1"}

SeqsUpTo(S, n) == UNION {[1..m -> S] : m \in 0..n}

\* /^[a-z][a-z0-9_-]*$/.test(s)
NameRegExp(s) ==
  /\ Len(s) >= 1
  /\ s[1] \in LowerCase
  /\ \A i \in 2..Len(s) : s[i] \in LowerCase \cup Digit \cup {"_", "-"}

\* /^v[0-9]+$/.test(s)
VersionRegExp(s) ==
  /\ Len(s) >= 2
  /\ s[1] = "v"
  /\ \A i \in 2..Len(s) : s[i] \in Digit

\* /[A-Z][A-Za-z0-9]*/.test(s): the pattern has no anchors, so it matches
\* as soon as some position holds an upper-case letter (the starred class
\* may match nothing)
ErrorCodeRegExp(s) ==
  \E i \in 1..Len(s) :
    /\ s[i] \in UpperCase
    /\ \E j \in i..Len(s) :
         \A x \in (i + 1)..j : s[x] \in UpperCase \cup LowerCase \cup Digit

\* ^[A-Z][A-Za-z0-9]*$, the pattern of the data model
ErrorCodeFullMatch(s) ==
  /\ Len(s) >= 1
  /\ s[1] \in UpperCase
  /\ \A i \in 2..Len(s) : s[i] \in UpperCase \cup LowerCase \cup Digit

\* --------------------------------------------------------------- JS values
\* HTTP status values of an error-code table, written as JS literals
Numbers == {"400", "400.5"}
StatusValues == Numbers \cup {"'400'"}

Typeof(v) == IF v \in Numbers THEN "number" ELSE "string"

IsInteger(v) == v = "400"

\* the built-in table of ./errors
ERROR_CODES == [k \in {<<"I", "n", "p", "u", "t", "E", "r", "r", "o", "r">>} |-> "400"]

\* validators of params and query, written as JS literals
RegExps   == {"/^[0-9]+$/", "/^[a-z]+$/"}
Functions == {"n => n > 0"}
Validators == RegExps \cup Functions \cup {"'not-a-function-or-regex'"}

InstanceofRegExp(v) == v \in RegExps

InstanceofFunction(v) == v \in Functions

\* ------------------------------------------------------------- constructor
Alphabet == {"v", "B", "1", "-"}

Strings == SeqsUpTo(Alphabet, MaxLen)

ValidOptions ==
  [title |-> <<"t">>, description |-> <<"d">>, name |-> <<"v">>, version |-> <<"v", "1">>]

BuilderParams == [id |-> "/^[0-9]+$/"]

\* the options the model hands to the constructor: the valid options with
\* one option changed
CtorInputs ==
  {ValidOptions}
    \cup {Set(ValidOptions, k, s) : k \in {"name", "version"}, s \in Strings}
    \cup {Set(ValidOptions, k, s) : k \in {"title", "description"}, s \in {<<>>, <<"B", "-">>}}
    \cup {Without(ValidOptions, k) : k \in DOMAIN ValidOptions}
    \cup {Set(ValidOptions, "schemaPrefix", <<"h">>)}
    \cup {Set(ValidOptions, "params", BuilderParams)}
    \cup {Set(ValidOptions, "context", <<"db">>)}
    \cup {Set(ValidOptions, "errorCodes", EmptyObject)}
    \cup {Set(ValidOptions, "errorCodes", [k \in {s} |-> v]) :
            s \in Strings \ {<<>>}, v \in StatusValues}

\* line 34: the user's table over the built-in one
MergedErrorCodes(options) ==
  Defaults(IF Has(options, "errorCodes") THEN options.errorCodes ELSE EmptyObject,
           ERROR_CODES)

\* lines 40-43
ErrorCodesOk(errorCodes) ==
  \A key \in DOMAIN errorCodes :
    /\ ErrorCodeRegExp(key)
    /\ Typeof(errorCodes[key]) = "number"

\* the assertion of line 32 is gone
CtorOk_Mutant(options) ==
  /\ ~TruthySeq(options, "schemaPrefix")
  /\ \A key \in {"title", "description", "name", "version"} : TruthySeq(options, key)
  /\ NameRegExp(options.name)
  /\ ErrorCodesOk(MergedErrorCodes(options))

\* lines 27-43: no assertion fails
CtorOk(options) ==
  /\ ~TruthySeq(options, "schemaPrefix")
  /\ \A key \in {"title", "description", "name", "version"} : TruthySeq(options, key)
  /\ NameRegExp(options.name)
  /\ VersionRegExp(options.version)
  /\ ErrorCodesOk(MergedErrorCodes(options))

\* title and description are taken from each other
NewBuilder_Mutant(options) ==
  [name        |-> options.name,
   version     |-> options.version,
   title       |-> options.description,
   description |-> options.title,
   params      |-> IF Has(options, "params") THEN options.params ELSE EmptyObject,
   context     |-> IF Has(options, "context") THEN options.context ELSE <<>>,
   errorCodes  |-> MergedErrorCodes(options)]

\* lines 44-51: the Builder a successful construction yields
NewBuilder(options) ==
  [name        |-> options.name,
   version     |-> options.version,
   title       |-> options.title,
   description |-> options.description,
   params      |-> IF Has(options, "params") THEN options.params ELSE EmptyObject,
   context     |-> IF Has(options, "context") THEN options.context ELSE <<>>,
   errorCodes  |-> MergedErrorCodes(options)]

\* ----------------------------------------------------------------- declare
Names    == {"a", "b"}
Handlers == {"h1", "h2"}

\* (route, method) pairs: one route under two methods, one method on two routes
RouteMethods == {<<"/x", "get">>, <<"/x", "post">>, <<"/y", "get">>}

Required == {"name", "method", "route", "title", "description"}

\* a level too many
STABILITY_LEVELS_Mutant == {"deprecated", "experimental", "stable", "beta"}

\* line 94: _.values(stability)
STABILITY_LEVELS == {"deprecated", "experimental", "stable"}

\* scope templates, written as JS literals
ScopeTemplates == {"[['a','b'],['c']]", "{AnyOf: 7}"}

\* ScopeExpressionTemplate.validate of ./expressions
Validate(template) == template = "[['a','b'],['c']]"

\* an options object with the required fields only
Plain(n, rm) ==
  [name |-> n, route |-> rm[1], method |-> rm[2], title |-> "t", description |-> "d"]

\* the optional fields, one at a time, over the options object b
Variants(b) ==
  {Without(b, k) : k \in Required}
    \cup {Set(b, "title", "")}
    \cup {Set(b, "stability", s) : s \in STABILITY_LEVELS \cup {"", "beta"}}
    \cup {Set(b, "query", q) :
            q \in {EmptyObject} \cup {[k \in {"limit"} |-> v] : v \in Validators}}
    \cup {Set(b, "query", [offset |-> "/^[0-9]+$/", limit |-> "'not-a-function-or-regex'"])}
    \cup {Set(b, "params", p) : p \in {[id |-> "/^[a-z]+$/"], [key |-> "n => n > 0"]}}
    \cup {Set(b, "deferAuth", d) : d \in BOOLEAN}
    \cup {Set(b, "scopes", t) : t \in ScopeTemplates}

\* options objects that fail several checks of declare at once: every check
\* from one of them on, up to the scopes
Defective(b) ==
  LET d4 == Set(Set(b, "deferAuth", TRUE), "scopes", "{AnyOf: 7}")
      d3 == Set(d4, "query", [limit |-> "'not-a-function-or-regex'"])
      d2 == Set(d3, "stability", "beta")
      d1 == Without(d2, "title")
  IN  {d1, d2, d3, d4}

\* the options objects a caller builds for declare: every name on every
\* (route, method) pair with the required fields only, and one of them with
\* each optional field set or a required field missing, or several wrong
DeclareInputs ==
  {Plain(n, rm) : n \in Names, rm \in RouteMethods}
    \cup Variants(Plain("a", <<"/x", "get">>))
    \cup Defective(Plain("a", <<"/x", "get">>))

\* lines 144-146: some required option is falsy
MissingOption(options) == \E key \in Required : ~TruthyStr(options, key)

\* lines 148-150
DefaultStability(options) ==
  IF ~TruthyStr(options, "stability")
  THEN Set(options, "stability", "experimental")
  ELSE options

\* line 151
StabilityOk(options) == options.stability \in STABILITY_LEVELS

\* lines 154-155
DefaultParamsQuery(options, params) ==
  Set(Set(options, "params",
          Defaults(IF Has(options, "params") THEN options.params ELSE EmptyObject, params)),
      "query", IF Has(options, "query") THEN options.query ELSE EmptyObject)

\* only some validator needs to be a RegExp or a function
QueryOk_Mutant(options) ==
  \A key \in DOMAIN options.query :
    \E other \in DOMAIN options.query :
      InstanceofRegExp(options.query[other]) \/ InstanceofFunction(options.query[other])

\* lines 156-160
QueryOk(options) ==
  \A key \in DOMAIN options.query :
    InstanceofRegExp(options.query[key]) \/ InstanceofFunction(options.query[key])

\* the assertion is gone
DeferAuthOk_Mutant(options) == Has(options, "name")

\* line 161
DeferAuthOk(options) == ~TruthyBool(options, "deferAuth")

\* the validator's answer is not negated
ScopesOk_Mutant(options) == ~(Has(options, "scopes") /\ Validate(options.scopes))

\* line 163
ScopesOk(options) == ~(Has(options, "scopes") /\ ~Validate(options.scopes))

\* line 166
AttachHandler(options, handler) == Set(options, "handler", handler)

\* the method is compared with the route
SameRouteMethod_Mutant(es, options) ==
  \E i \in DOMAIN es : es[i].route = options.route /\ es[i].method = options.route

\* line 167 (routes and methods are strings, on which == is ===)
SameRouteMethod(es, options) ==
  \E i \in DOMAIN es : es[i].route = options.route /\ es[i].method = options.method

\* the name is compared with the route
SameName_Mutant(es, options) == \E i \in DOMAIN es : es[i].name = options.route

\* line 170
SameName(es, options) == \E i \in DOMAIN es : es[i].name = options.name

\* unshift for push
Push_Mutant(es, options) == <<options>> \o es

\* line 173
Push(es, options) == Append(es, options)

\* The options object is written in place, and an entry of the array is the
\* object that was passed: a write to the object shows in the array when the
\* object is one of its elements.  `ref` is the object's identity.
Write(es, options) ==
  [i \in DOMAIN es |-> IF es[i].ref = options.ref THEN options ELSE es[i]]

\* the name is looked up before the route and method
Declare_Mutant(es, params, options, handler) ==
  LET o1 == DefaultStability(options)
      o2 == DefaultParamsQuery(o1, params)
      o3 == AttachHandler(o2, handler)
  IN  IF MissingOption(options)
        THEN [error |-> "Option must be provided", entries |-> es]
      ELSE IF ~StabilityOk(o1)
        THEN [error |-> "options.stability must be a valid stability-level",
              entries |-> Write(es, o1)]
      ELSE IF ~QueryOk(o2)
        THEN [error |-> "query must be a RegExp or a function!", entries |-> Write(es, o2)]
      ELSE IF ~DeferAuthOk(o2)
        THEN [error |-> "deferAuth is deprecated!", entries |-> Write(es, o2)]
      ELSE IF ~ScopesOk(o2)
        THEN [error |-> "Invalid scope expression template", entries |-> Write(es, o2)]
      ELSE IF SameName(Write(es, o3), o3)
        THEN [error |-> "This function has already been declared.",
              entries |-> Write(es, o3)]
      ELSE IF SameRouteMethod(Write(es, o3), o3)
        THEN [error |-> "Identical route and method declaration.",
              entries |-> Write(es, o3)]
      ELSE [error |-> "", entries |-> Push(Write(es, o3), o3)]

\* lines 143-174: what the call throws ("" when it returns) and this.entries
\* when it ends
Declare(es, params, options, handler) ==
  LET o1 == DefaultStability(options)
      o2 == DefaultParamsQuery(o1, params)
      o3 == AttachHandler(o2, handler)
  IN  IF MissingOption(options)
        THEN [error |-> "Option must be provided", entries |-> es]
      ELSE IF ~StabilityOk(o1)
        THEN [error |-> "options.stability must be a valid stability-level",
              entries |-> Write(es, o1)]
      ELSE IF ~QueryOk(o2)
        THEN [error |-> "query must be a RegExp or a function!", entries |-> Write(es, o2)]
      ELSE IF ~DeferAuthOk(o2)
        THEN [error |-> "deferAuth is deprecated!", entries |-> Write(es, o2)]
      ELSE IF ~ScopesOk(o2)
        THEN [error |-> "Invalid scope expression template", entries |-> Write(es, o2)]
      ELSE IF SameRouteMethod(Write(es, o3), o3)
        THEN [error |-> "Identical route and method declaration.",
              entries |-> Write(es, o3)]
      ELSE IF SameName(Write(es, o3), o3)
        THEN [error |-> "This function has already been declared.",
              entries |-> Write(es, o3)]
      ELSE [error |-> "", entries |-> Push(Write(es, o3), o3)]

\* ------------------------------------------------------------------- build
\* the options objects a caller builds for build
BuildInputs ==
  {[rootUrl |-> "r"], [rootUrl |-> "r", publish |-> TRUE], [rootUrl |-> "r", publish |-> FALSE]}

\* publish is called whatever options.publish is
Build_Mutant(es, options, thrown) ==
  [options      |-> Set(options, "api", "this"),
   publish      |-> TruthyBool(options, "publish"),
   constructed  |-> ~thrown,
   state        |-> IF thrown THEN "rejected" ELSE "publishing",
   cause        |-> IF thrown THEN "new API" ELSE "",
   publishCalls |-> IF ~thrown THEN 1 ELSE 0,
   published    |-> IF ~thrown THEN "pending" ELSE "",
   handed       |-> es]

\* lines 203-208, up to the first suspension: `thrown` is whether new API
\* (of ./api) throws.  The Service holds the Builder (options.api = this);
\* `handed` is this.entries as the Service's constructor finds it.  `state`
\* is the state of the promise build returns, suspended at line 206 while it
\* is "publishing", and `cause` what it is rejected with; `published` is the
\* state of the promise service.publish() returned.
Build(es, options, thrown) ==
  [options      |-> Set(options, "api", "this"),
   publish      |-> TruthyBool(options, "publish"),
   constructed  |-> ~thrown,
   state        |-> IF thrown THEN "rejected"
                    ELSE IF TruthyBool(options, "publish") THEN "publishing"
                    ELSE "resolved",
   cause        |-> IF thrown THEN "new API" ELSE "",
   publishCalls |-> IF ~thrown /\ TruthyBool(options, "publish") THEN 1 ELSE 0,
   published    |-> IF ~thrown /\ TruthyBool(options, "publish") THEN "pending" ELSE "",
   handed       |-> es]

\* the rejection is swallowed
Settle_Mutant(b, rejected) ==
  [b EXCEPT !.state = "resolved",
            !.cause = "",
            !.published = IF rejected THEN "rejected" ELSE "resolved"]

\* line 206 settles: `rejected` is whether service.publish() (of ./api) rejects
Settle(b, rejected) ==
  [b EXCEPT !.state = IF rejected THEN "rejected" ELSE "resolved",
            !.cause = IF rejected THEN "publish" ELSE "",
            !.published = IF rejected THEN "rejected" ELSE "resolved"]

\* ------------------------------------------------------------------- state
VARIABLES
  args,      \* the options the constructor was called with
  builder,   \* the Builder (`this`) without its entries
  entries,   \* this.entries
  call,      \* the latest call: its arguments and what it threw
  builds     \* the build calls, in call order

vars == <<args, builder, entries, call, builds>>

Pending == [pending |-> TRUE]

Failed == [failed |-> TRUE]

Constructed == Has(builder, "name")

\* the Builders the declare and build calls are made on
BuilderInputs == {Set(ValidOptions, "params", BuilderParams)}

\* the state after a successful construction
Init ==
  /\ args \in BuilderInputs
  /\ builder = NewBuilder(args)
  /\ entries = <<>>
  /\ call = [op |-> "new"]
  /\ builds = <<>>

\* the state before construction
InitCtor ==
  /\ args \in CtorInputs
  /\ builder = Pending
  /\ entries = <<>>
  /\ call = [op |-> "none"]
  /\ builds = <<>>

\* lines 26-52
APIBuilder ==
  /\ builder = Pending
  /\ builder' = IF CtorOk(args) THEN NewBuilder(args) ELSE Failed
  /\ entries' = <<>>
  /\ call' = [op |-> "new"]
  /\ UNCHANGED <<args, builds>>

\* The objects a caller can pass to declare: a new object, or an object that
\* is already an entry.  A new object takes the first identity no entry has.
\* (An object whose declare call failed, passed again, behaves as a new
\* object with the same properties: lines 148-166 write the same values
\* again.)
Objects(inputs) ==
  {Set(o, "ref", Len(entries) + 1) : o \in inputs}
    \cup {entries[i] : i \in DOMAIN entries}

\* lines 143-174
declare(options, handler) ==
  /\ Constructed
  /\ LET r == Declare(entries, builder.params, options, handler)
     IN  /\ entries' = r.entries
         /\ call' = [op |-> "declare", options |-> options, error |-> r.error]
  /\ UNCHANGED <<args, builder, builds>>

\* the entries are taken out of the Builder as they are handed over
build_Mutant(options, thrown) ==
  /\ Constructed
  /\ Len(builds) < MaxBuilds
  /\ builds' = Append(builds, Build(entries, options, thrown))
  /\ call' = [op |-> "build", options |-> options]
  /\ entries' = <<>>
  /\ UNCHANGED <<args, builder>>

\* lines 202-209, up to the first suspension
build(options, thrown) ==
  /\ Constructed
  /\ Len(builds) < MaxBuilds
  /\ builds' = Append(builds, Build(entries, options, thrown))
  /\ call' = [op |-> "build", options |-> options]
  /\ UNCHANGED <<args, builder, entries>>

\* line 206: the awaited publish settles and build resumes
publish(i, rejected) ==
  /\ builds[i].state = "publishing"
  /\ builds' = [builds EXCEPT ![i] = Settle(@, rejected)]
  /\ UNCHANGED <<args, builder, entries, call>>

DeclareCalls ==
  \E options \in Objects(DeclareInputs), handler \in Handlers : declare(options, handler)

\* every name on two routes, with the required fields only
PlainInputs == {Plain(n, rm) : n \in Names, rm \in {<<"/x", "get">>, <<"/y", "get">>}}

\* the declare calls of a service that needs no optional field and has one
\* handler for all its entries
PlainDeclareCalls ==
  \E options \in Objects(PlainInputs) : declare(options, "h1")

BuildCalls == \E options \in BuildInputs, thrown \in BOOLEAN : build(options, thrown)

PublishSettles == \E i \in DOMAIN builds, rejected \in BOOLEAN : publish(i, rejected)

Next == DeclareCalls

NextBuild == PlainDeclareCalls \/ BuildCalls \/ PublishSettles

NextCtor == APIBuilder

\* declare calls on a constructed Builder
Spec == Init /\ [][Next]_vars

\* declare and build calls on a constructed Builder
SpecBuild == Init /\ [][NextBuild]_vars

\* the constructor over its inputs
SpecCtor == InitCtor /\ [][NextCtor]_vars

\* the constructor's inputs that leave the error-code table alone
LifeInputs == {o \in CtorInputs : ~Has(o, "errorCodes")}

InitLife ==
  /\ args \in LifeInputs
  /\ builder = Pending
  /\ entries = <<>>
  /\ call = [op |-> "none"]
  /\ builds = <<>>

\* the declare calls of a service with one entry
LifeDeclareCalls ==
  \E options \in Objects({Plain("a", <<"/x", "get">>)}) : declare(options, "h1")

NextLife == APIBuilder \/ LifeDeclareCalls \/ BuildCalls \/ PublishSettles

\* a Builder from its construction on: the constructor, then declare and
\* build calls
SpecLife == InitLife /\ [][NextLife]_vars

\* ------------------------------------------------------------------ claims
\* this step is a declare call; call' holds its arguments and what it threw
DeclareStep == call'.op = "declare" /\ <<call, entries>>' # <<call, entries>>

\* the latest call is a declare call that returned
Returned == call.op = "declare" /\ call.error = ""

\* the latest call is a declare call that threw
Threw == call.op = "declare" /\ call.error # ""

\* the options object of the latest call is none of the entries
NewObject == \A i \in DOMAIN entries : entries[i].ref # call.options.ref

\* some entry other than the object itself has the options' route and method
RouteMethodStored(es, options) ==
  /\ Has(options, "route") /\ Has(options, "method")
  /\ \E i \in DOMAIN es :
       es[i].route = options.route /\ es[i].method = options.method

NameStored(es, options) ==
  Has(options, "name") /\ \E i \in DOMAIN es : es[i].name = options.name

\* C1: no two entries have the same (route, method) pair; a declare whose
\* route and method equal those of a stored entry throws and leaves the
\* length of entries as it was.
C1_UniqueRouteMethod ==
  /\ [](\A i, j \in DOMAIN entries :
          i # j => ~(entries[i].route = entries[j].route
                      /\ entries[i].method = entries[j].method))
  /\ [][DeclareStep /\ RouteMethodStored(entries, call'.options)
          => call'.error # "" /\ Len(entries') = Len(entries)]_vars

\* a new object with the route and method of an entry was rejected for them
C1_Witness ==
  /\ Threw /\ NewObject
  /\ call.error = "Identical route and method declaration."
  /\ RouteMethodStored(entries, call.options)
  /\ ~NameStored(entries, call.options)

\* C2: no two entries have the same name; a declare whose name equals the
\* name of a stored entry throws, also when its route and method are those
\* of no stored entry.
C2_UniqueName ==
  /\ [](\A i, j \in DOMAIN entries : i # j => entries[i].name # entries[j].name)
  /\ [][DeclareStep /\ NameStored(entries, call'.options)
          => call'.error # "" /\ Len(entries') = Len(entries)]_vars

\* a new object with the name of an entry, and a route and method of its own,
\* was rejected for the name
C2_Witness ==
  /\ Threw /\ NewObject
  /\ call.error = "This function has already been declared."
  /\ NameStored(entries, call.options)
  /\ ~RouteMethodStored(entries, call.options)

\* C3: a declare call that throws leaves entries with the same length and
\* the same elements in the same order.
C3_FailedDeclareLeavesEntries ==
  [][DeclareStep /\ call'.error # "" => entries' = entries]_vars

\* C4: an entry, once stored, keeps the fields it was stored with, the
\* handler included, over every later call.
C4_EntriesNeverMutated ==
  [][\A i \in DOMAIN entries : i \in DOMAIN entries' /\ entries'[i] = entries[i]]_vars

\* C5: a declare that returns appends exactly its entry at the end of
\* entries, the earlier sequence staying a prefix; entries holds the accepted
\* declarations in the order of their calls (the identity of an options
\* object is its rank among the accepted ones), and that is the order a
\* build hands to the Service.
C5_AppendOnlyInOrder ==
  /\ [][DeclareStep /\ call'.error = ""
          => /\ Len(entries') = Len(entries) + 1
             /\ SubSeq(entries', 1, Len(entries)) = entries
             /\ entries'[Len(entries')].ref = call'.options.ref
             /\ entries'[Len(entries')].name = call'.options.name]_vars
  /\ [](\A i \in DOMAIN entries : entries[i].ref = i)
  /\ [](\A b \in DOMAIN builds :
          \A i \in DOMAIN builds[b].handed : builds[b].handed[i].ref = i)

\* a build was handed two entries, declared in that order
C5_Witness ==
  /\ Len(entries) = 2
  /\ \E b \in DOMAIN builds :
       /\ Len(builds[b].handed) = 2
       /\ builds[b].handed[1].ref = 1 /\ builds[b].handed[2].ref = 2

\* C6: every entry's stability is deprecated, experimental or stable; a
\* declare without stability stores 'experimental'; a declare with a
\* stability outside the three throws.
C6_Stability ==
  /\ \A i \in DOMAIN entries :
       entries[i].stability \in {"deprecated", "experimental", "stable"}
  /\ Returned /\ ~Has(call.options, "stability")
       => entries[Len(entries)].stability = "experimental"
  /\ call.op = "declare" /\ Has(call.options, "stability")
       /\ call.options.stability \notin {"", "deprecated", "experimental", "stable"}
       => call.error # ""

\* a declare without stability returned
C6_Witness ==
  /\ Returned /\ ~Has(call.options, "stability")
  /\ entries[Len(entries)].ref = call.options.ref
  /\ entries[Len(entries)].stability = "experimental"

IsValidator(v) == v \in {"/^[0-9]+$/", "/^[a-z]+$/", "n => n > 0"}

BadQuery(options) ==
  Has(options, "query") /\ \E key \in DOMAIN options.query : ~IsValidator(options.query[key])

\* C7: every query validator of every entry is a RegExp or a function; a
\* declare with any other query value throws and appends nothing; a declare
\* without query stores an empty query.
C7_QueryValidators ==
  /\ [](\A i \in DOMAIN entries :
          \A key \in DOMAIN entries[i].query : IsValidator(entries[i].query[key]))
  /\ [][DeclareStep /\ BadQuery(call'.options)
          => call'.error # "" /\ Len(entries') = Len(entries)]_vars
  /\ [](Returned /\ ~Has(call.options, "query")
          => entries[Len(entries)].query = EmptyObject)

\* a declare with a query value that is no validator, beside one that is, threw
C7_Witness ==
  /\ Threw /\ BadQuery(call.options)
  /\ \E key \in DOMAIN call.options.query : IsValidator(call.options.query[key])

BadScopes(options) == Has(options, "scopes") /\ ~Validate(options.scopes)

\* C8: every entry has no scopes or scopes the validator accepted; a declare
\* whose scopes the validator rejects throws and appends nothing.
C8_ScopesValidated ==
  /\ [](\A i \in DOMAIN entries : ~BadScopes(entries[i]))
  /\ [][DeclareStep /\ BadScopes(call'.options)
          => call'.error # "" /\ Len(entries') = Len(entries)]_vars

\* a declare with scopes the validator rejects threw, and one entry has scopes
C8_Witness ==
  /\ Threw /\ BadScopes(call.options)
  /\ \E i \in DOMAIN entries : Has(entries[i], "scopes")

\* C9, as claimed: every declare whose options carry deferAuth throws,
\* whatever its value, and no entry carries deferAuth.
C9_DeferAuthAlwaysRejected ==
  /\ call.op = "declare" /\ Has(call.options, "deferAuth") => call.error # ""
  /\ \A i \in DOMAIN entries : ~Has(entries[i], "deferAuth")

\* C9, amended: every declare whose options carry a truthy deferAuth throws,
\* and no entry carries a truthy deferAuth.
C9_TruthyDeferAuthRejected ==
  /\ call.op = "declare" /\ Has(call.options, "deferAuth") /\ call.options.deferAuth
       => call.error # ""
  /\ \A i \in DOMAIN entries : Has(entries[i], "deferAuth") => ~entries[i].deferAuth

\* a declare with deferAuth: true threw
C9_Witness ==
  /\ Threw /\ Has(call.options, "deferAuth") /\ call.options.deferAuth
  /\ call.error = "deferAuth is deprecated!"

\* C10: a Builder exists only if every key of its error-code table matches
\* ^[A-Z][A-Za-z0-9]*$ in full and every value is an integer.
C10_ErrorCodesValidated ==
  Constructed =>
    \A key \in DOMAIN builder.errorCodes :
      ErrorCodeFullMatch(key) /\ IsInteger(builder.errorCodes[key])

\* C11: a Builder's name, version, title and description are the ones the
\* constructor was given and its entries are empty when the constructor
\* returns; no declare or build call changes the four afterwards.
C11_IdentityVerbatimAndKept ==
  /\ [][builder = Pending /\ Constructed'
          => /\ \A k \in {"name", "version", "title", "description"} : builder'[k] = args[k]
             /\ entries' = <<>>]_vars
  /\ [][Constructed
          => \A k \in {"name", "version", "title", "description"} : builder'[k] = builder[k]]_vars
  /\ [](Constructed
          => \A k \in {"name", "version", "title", "description"} : builder[k] = args[k])

\* a Builder given a title that differs from its description has an entry
\* and a build behind it
C11_Witness ==
  /\ Constructed
  /\ builder.title = <<"B", "-">> /\ builder.description = <<"d">>
  /\ Len(entries) = 1 /\ Len(builds) >= 1

\* the option is missing or falsy
Falsy(options, key) == ~Has(options, key) \/ options[key] = <<>>

\* C12: the constructor yields no Builder when name does not match
\* ^[a-z][a-z0-9_-]*$, when version does not match ^v[0-9]+$, or when one of
\* title, description, name and version is missing or falsy.
C12_ConstructionRejects ==
  builder # Pending
    /\ (\/ \E key \in {"title", "description", "name", "version"} : Falsy(args, key)
        \/ ~NameRegExp(args.name)
        \/ ~VersionRegExp(args.version))
    => builder = Failed

\* the constructor threw for a version that is set and does not match
C12_Witness ==
  /\ builder = Failed
  /\ \A key \in {"title", "description", "name", "version"} : ~Falsy(args, key)
  /\ NameRegExp(args.name)
  /\ ~VersionRegExp(args.version)

WantsPublish(b) == Has(b.options, "publish") /\ b.options.publish = TRUE

\* C13: a build with a truthy publish option calls publish exactly once,
\* on the constructed Service and before its result resolves, and resolves
\* only after publish has resolved; a build with a falsy publish option
\* never calls publish.
C13_PublishOnceBeforeReturn ==
  \A i \in DOMAIN builds :
    /\ builds[i].constructed /\ WantsPublish(builds[i]) => builds[i].publishCalls = 1
    /\ ~WantsPublish(builds[i])
         => builds[i].publishCalls = 0 /\ builds[i].published = ""
    /\ builds[i].publishCalls > 0 => builds[i].constructed
    /\ builds[i].published = "pending" => builds[i].state = "publishing"
    /\ builds[i].state = "resolved" /\ WantsPublish(builds[i])
         => builds[i].published = "resolved"

\* a build with publish: true has resolved, after its one publish call
\* resolved
C13_Witness ==
  \E i \in DOMAIN builds :
    /\ WantsPublish(builds[i])
    /\ builds[i].state = "resolved"
    /\ builds[i].publishCalls = 1 /\ builds[i].published = "resolved"

\* C14: a build whose Service construction throws, or whose publish
\* rejects, rejects with that cause and never resolves; a build resolves
\* only if the construction succeeded and the publish it asked for resolved.
C14_BuildFailurePropagates ==
  /\ [](\A i \in DOMAIN builds :
          /\ ~builds[i].constructed
               => builds[i].state = "rejected" /\ builds[i].cause = "new API"
          /\ builds[i].published = "rejected"
               => builds[i].state = "rejected" /\ builds[i].cause = "publish"
          /\ builds[i].state = "resolved"
               => /\ builds[i].constructed
                  /\ builds[i].published # "rejected"
                  /\ builds[i].cause = ""
                  /\ WantsPublish(builds[i]) => builds[i].published = "resolved")
  /\ [][\A i \in DOMAIN builds :
          builds[i].state = "rejected"
            => builds'[i].state = "rejected" /\ builds'[i].cause = builds[i].cause]_vars

\* one build was rejected by its constructor and one by its publish
C14_Witness ==
  /\ \E i \in DOMAIN builds :
       ~builds[i].constructed /\ builds[i].state = "rejected"
  /\ \E i \in DOMAIN builds :
       builds[i].published = "rejected" /\ builds[i].state = "rejected"

\* this step is a build call
BuildStep == Len(builds') = Len(builds) + 1

\* C15: no build call, resolved or rejected, changes entries: the Service is
\* handed the entries as they are, and a build that follows a build with no
\* declare call between them is handed the same entries in the same order.
C15_BuildKeepsEntries ==
  /\ [][builds' # builds => entries' = entries]_vars
  /\ [][BuildStep => builds'[Len(builds')].handed = entries]_vars
  /\ [][BuildStep /\ call.op = "build"
          => builds'[Len(builds')].handed = builds[Len(builds)].handed]_vars

\* two builds, one resolved and one rejected, were handed the same two entries
C15_Witness ==
  /\ Len(builds) = 2 /\ Len(entries) = 2
  /\ builds[1].handed = entries /\ builds[2].handed = entries
  /\ builds[1].state = "resolved" /\ builds[2].state = "rejected"

\* C16: once build has been called, no later call changes the entries the
\* built Service observes through its api.
C16_EntriesFrozenAfterBuild ==
  [][Len(builds) >= 1 => entries' = entries]_vars

\* C17: the params of a stored entry are, key by key, the validator the
\* declare options supplied, else the Builder's, else nothing; declare leaves
\* the Builder's own params as the constructor set them.
C17_ParamsMergedPerKey ==
  /\ [](Returned =>
          LET stored == entries[Len(entries)].params
              own == IF Has(call.options, "params") THEN call.options.params
                     ELSE EmptyObject
          IN  \A key \in {"id", "key", "limit"} :
                IF key \in DOMAIN own
                  THEN key \in DOMAIN stored /\ stored[key] = own[key]
                ELSE IF key \in DOMAIN builder.params
                  THEN key \in DOMAIN stored /\ stored[key] = builder.params[key]
                ELSE key \notin DOMAIN stored)
  /\ [](builder.params = args.params)
  /\ [][DeclareStep => builder'.params = builder.params]_vars

\* an entry stored with its own validator for a key the Builder also has
C17_Witness ==
  /\ Returned
  /\ Has(call.options, "params") /\ Has(call.options.params, "id")
  /\ builder.params.id # call.options.params.id
  /\ entries[Len(entries)].params.id = call.options.params.id

\* the first check of declare, in the order of the code, that the options
\* fail against the entries es
FirstFailure(es, options) ==
  IF \E key \in {"name", "method", "route", "title", "description"} :
       ~Has(options, key) \/ options[key] = ""
    THEN "Option must be provided"
  ELSE IF Has(options, "stability") /\ options.stability # ""
          /\ options.stability \notin {"deprecated", "experimental", "stable"}
    THEN "options.stability must be a valid stability-level"
  ELSE IF BadQuery(options)
    THEN "query must be a RegExp or a function!"
  ELSE IF Has(options, "deferAuth") /\ options.deferAuth = TRUE
    THEN "deferAuth is deprecated!"
  ELSE IF BadScopes(options)
    THEN "Invalid scope expression template"
  ELSE IF \E i \in DOMAIN es :
            es[i].route = options.route /\ es[i].method = options.method
    THEN "Identical route and method declaration."
  ELSE IF \E i \in DOMAIN es : es[i].name = options.name
    THEN "This function has already been declared."
  ELSE ""

\* C18: declare reports the first failing check in the order required
\* fields, stability, query, deferAuth, scopes, (route, method), name; a
\* duplicate of both route+method and name is reported as a duplicate
\* route+method, and invalid scopes on a duplicate as invalid scopes.
C18_FirstFailingCheck ==
  /\ [][DeclareStep => call'.error = FirstFailure(entries, call'.options)]_vars
  /\ [][DeclareStep /\ ~Has(call'.options, "scopes")
          /\ RouteMethodStored(entries, call'.options)
          /\ NameStored(entries, call'.options)
          /\ FirstFailure(<<>>, call'.options) = ""
          => call'.error = "Identical route and method declaration."]_vars
  /\ [][DeclareStep /\ BadScopes(call'.options)
          /\ RouteMethodStored(entries, call'.options)
          /\ FirstFailure(<<>>, Without(call'.options, "scopes")) = ""
          => call'.error = "Invalid scope expression template"]_vars

\* a new declaration that duplicates the route, the method and the name of
\* stored entries, rejected as a duplicate route and method
C18_Witness ==
  /\ Threw /\ NewObject
  /\ call.error = "Identical route and method declaration."
  /\ \E i \in DOMAIN entries :
       entries[i].route = call.options.route /\ entries[i].method = call.options.method
  /\ \E j \in DOMAIN entries : entries[j].name = call.options.name

====
